---- MODULE Spec2Model ----
(***************************************************************************)
(* Model of memory_plotter/plot_mem.py: realtime_mem_plot.wrapper (the     *)
(* Orchestrator), local_func (the Worker), plotting (the Monitor), the     *)
(* multiprocessing Queue between Worker and Orchestrator, and the shared   *)
(* cells status and pid.                                                   *)
(*                                                                         *)
(* Each action is one atomic step of one process.  A step of the Monitor   *)
(* holds at most one access to the shared status cell, because every       *)
(* branch of its dispatch reads status.value again.                        *)
(***************************************************************************)
EXTENDS Integers, Sequences, FiniteSets

\* ---------------------------------------------------------------- bounds
\* History capacity.  plot_mem.py:26 sets 5000; the model keeps the same
\* deque arithmetic over a short deque.
HOLD_DATA_SIZE == 2
\* Successful samples per session.
MaxPushes == 21
\* Bytes the OS pipe under the Queue holds before a writer blocks.
PipeCap == 1
\* Largest pickled result, in the same unit: one more than the pipe holds.
MaxSize == PipeCap + 1

\* ------------------------------------------------------ program constants
WAITING_TIME == 1
UNIT == 1024 * 1024
FLUSH_EVERY == 10

WAITING_START == 1
RUNNING == 2
STOP_PLOTTING == 3
WAITING_STOP == 4
CLOSE_FIGURE == 5

Status == {WAITING_START, RUNNING, STOP_PLOTTING, WAITING_STOP, CLOSE_FIGURE}

None == "None"
\* What the unit of work can return, and how it can end.
Returns == {"v1", "v2"}
\* Process identifiers the OS hands out: either child can get the higher one.
Pids == {1, 2}

\* mem_info values the OS can report: rss, vms, peak_pagefile, in bytes.
MemInfos == { [rss |-> UNIT, vms |-> 2 * UNIT, peak_pagefile |-> 2 * UNIT],
              [rss |-> 2 * UNIT, vms |-> 3 * UNIT, peak_pagefile |-> 3 * UNIT] }

VARIABLES
    \* shared cells
    status,       \* Value('i'): the LifecycleState cell
    pid,          \* Value('i'): the WorkerHandle
    \* Orchestrator (wrapper, close_figure)
    opc,          \* position of the calling process
    result,       \* wrapper's local result
    file_name,    \* TRUE when a log path was given
    \* processes
    mpid,         \* p_plot's process id, 0 before start
    wpid,         \* p_main's process id, 0 before start
    wreaped,      \* p_main has been joined: its id is gone from the process table
    \* Worker (local_func)
    wpc,
    wresult,      \* local_func's local result
    outcome,      \* how __func ended: "none" | "return" | "Exception" | "BaseException"
    \* Queue
    qmsg,         \* the object put on the queue, or "empty"
    qsize,        \* its pickled size
    unsent,       \* bytes the feeder thread has still to write to the pipe
    pipe,         \* bytes in the pipe
    received,     \* bytes the reader has taken
    puts,         \* number of put calls made
    \* Monitor (plotting)
    mpc,
    times, pmems, vmems, peaks,
    elapsed,      \* time.time() - start_time
    f,            \* the log file object
    flush_count,
    fig,          \* the chart: "none" | "open" | "closed"
    tick,         \* what the Monitor's last step did
    annot,        \* the peak annotation drawn by plt.text: <<x, y>>, or <<>>
    pushCount,    \* number of samples appended so far
    recent,       \* the last HOLD_DATA_SIZE samples appended, each with its push index
    paused,       \* the Monitor's last tick ended in plt.pause
    stopTicks,    \* number of STOP_PLOTTING ticks the Monitor has run
    firstRead,    \* what line 104 read in the dispatch under way, 0 between dispatches
    stopSet       \* the Orchestrator has written STOP_PLOTTING

shared == <<status, pid>>
ovars == <<opc, result, file_name>>
procs == <<mpid, wpid, wreaped>>
wvars == <<wpc, wresult, outcome>>
qvars == <<qmsg, qsize, unsent, pipe, received, puts>>
hist == <<times, pmems, vmems, peaks>>
ghost == <<paused, stopTicks, firstRead>>
mvars == <<mpc, hist, elapsed, f, flush_count, fig, tick, annot, pushCount, recent,
           ghost>>
vars == <<shared, ovars, procs, wvars, qvars, mvars, stopSet>>


\* ------------------------------------------------------------- helpers
Min(a, b) == IF a <= b THEN a ELSE b

RECURSIVE SortedSeq(_)
\* The elements of a finite set of integers in ascending order.
SortedSeq(S) ==
    IF S = {} THEN <<>>
    ELSE LET m == CHOOSE x \in S : \A y \in S : x <= y
         IN <<m>> \o SortedSeq(S \ {m})

\* parent.children(): the calling process's children still in the process
\* table, in ascending process id (psutil walks the sorted pid list).
children ==
    SortedSeq({p \in {mpid, wpid} : p # 0 /\ ~(p = wpid /\ wreaped)})

\* psutil.Process(pid=p) finds a process: the Monitor itself, or the Worker
\* until the Orchestrator has joined it.
ProcessExists(p) ==
    \/ p # 0 /\ p = mpid
    \/ p # 0 /\ p = wpid /\ ~wreaped

\* ---------------------------------------------------------------- Init
\* wrapper, lines 197-201: the cells exist, status holds WAITING_START, no
\* process has been started.
Init ==
    /\ status = WAITING_START
    /\ pid = 0
    /\ opc = "start_plot"
    /\ result = None
    /\ file_name \in BOOLEAN
    /\ mpid = 0 /\ wpid = 0 /\ wreaped = FALSE
    /\ wpc = "unstarted" /\ wresult = None /\ outcome = "none"
    /\ qmsg = "empty" /\ qsize = 0 /\ unsent = 0 /\ pipe = 0 /\ received = 0
    /\ puts = 0
    /\ mpc = "unstarted"
    /\ times = <<>> /\ pmems = <<>> /\ vmems = <<>> /\ peaks = <<>>
    /\ elapsed = 0
    /\ f = [state |-> "none", written |-> 0, durable |-> 0]
    /\ flush_count = 0
    /\ fig = "none"
    /\ tick = "none"
    /\ annot = <<>>
    /\ pushCount = 0
    /\ recent = <<>>
    /\ paused = FALSE /\ stopTicks = 0 /\ firstRead = 0
    /\ stopSet = FALSE

\* -------------------------------------------------- Orchestrator: wrapper
\* lines 202-203: p_plot.start()
StartPlot ==
    /\ opc = "start_plot"
    /\ \E p \in Pids : mpid' = p
    /\ mpc' = "init"
    /\ opc' = "start_main"
    /\ UNCHANGED <<shared, result, file_name, wpid, wreaped, wvars, qvars,
                   hist, elapsed, f, flush_count, fig, tick, annot, pushCount,
                   recent, ghost, stopSet>>

\* lines 205-206: p_main.start()
StartMain ==
    /\ opc = "start_main"
    /\ \E p \in Pids \ {mpid} : wpid' = p
    /\ wpc' = "run"
    /\ opc' = "discover"
    /\ UNCHANGED <<shared, result, file_name, mpid, wreaped, wresult, outcome,
                   qvars, mvars, stopSet>>

\* The discovery without the write to pid
DiscoverWritesNothing ==
    /\ opc = "discover"
    /\ opc' = "set_running"
    /\ UNCHANGED <<shared, result, file_name, procs, wvars, qvars, mvars, stopSet>>

\* lines 208-212: pid.value = children[-1].pid
Discover ==
    /\ opc = "discover"
    /\ pid' = children[Len(children)]
    /\ opc' = "set_running"
    /\ UNCHANGED <<status, result, file_name, procs, wvars, qvars, mvars, stopSet>>

\* line 214
SetRunning ==
    /\ opc = "set_running"
    /\ status' = RUNNING
    /\ opc' = "join_main"
    /\ UNCHANGED <<pid, result, file_name, procs, wvars, qvars, mvars, stopSet>>

\* lines 216-217: p_main.join() returns once the Worker process has ended;
\* the join reaps it.  Then time.sleep(0.1).
JoinMain ==
    /\ opc = "join_main"
    /\ wpc = "terminated"
    /\ wreaped' = TRUE
    /\ opc' = "set_stop"
    /\ UNCHANGED <<shared, result, file_name, mpid, wpid, wvars, qvars, mvars,
                   stopSet>>

\* line 218
SetStop ==
    /\ opc = "set_stop"
    /\ status' = STOP_PLOTTING
    /\ stopSet' = TRUE
    /\ opc' = "get"
    /\ UNCHANGED <<pid, result, file_name, procs, wvars, qvars, mvars>>

\* Get that hands back no value
GetDropsValue ==
    /\ opc = "get"
    /\ pipe > 0
    /\ received' = received + pipe
    /\ pipe' = 0
    /\ IF received + pipe = qsize
         THEN result' = None /\ opc' = "returned"
         ELSE UNCHANGED <<result, opc>>
    /\ UNCHANGED <<shared, file_name, procs, wvars, qmsg, qsize, unsent, puts,
                   mvars, stopSet>>

\* line 220: result_queue.get() reads what is in the pipe and returns the
\* object once all of its bytes have arrived; it blocks on an empty pipe.
Get ==
    /\ opc = "get"
    /\ pipe > 0
    /\ received' = received + pipe
    /\ pipe' = 0
    /\ IF received + pipe = qsize
         THEN result' = qmsg /\ opc' = "returned"
         ELSE UNCHANGED <<result, opc>>
    /\ UNCHANGED <<shared, file_name, procs, wvars, qmsg, qsize, unsent, puts,
                   mvars, stopSet>>

\* line 223: the caller invokes close_figure, which writes CLOSE_FIGURE
CloseFigureSet ==
    /\ opc = "returned"
    /\ status' = CLOSE_FIGURE
    /\ opc' = "close_join"
    /\ UNCHANGED <<pid, result, file_name, procs, wvars, qvars, mvars, stopSet>>

\* lines 224-225: p_plot.join()
CloseFigureJoin ==
    /\ opc = "close_join"
    /\ mpc = "exited"
    /\ opc' = "closed"
    /\ UNCHANGED <<shared, result, file_name, procs, wvars, qvars, mvars, stopSet>>

\* ------------------------------------------------------ Worker: local_func
\* What the except clause of line 171 catches.
Caught(exc) == exc = "Exception"

\* lines 168-172: result = None; try: result = __func(...); except Exception
WorkReturns ==
    /\ wpc = "run"
    /\ \E v \in Returns : wresult' = v
    /\ outcome' = "return"
    /\ wpc' = "put"
    /\ UNCHANGED <<shared, ovars, procs, qvars, mvars, stopSet>>

\* __func raises.  A caught exception leaves result None and goes on to the
\* put; any other propagates out of local_func and ends the process.
WorkRaises ==
    /\ wpc = "run"
    /\ \E exc \in {"Exception", "BaseException"} :
         /\ outcome' = exc
         /\ wpc' = IF Caught(exc) THEN "put" ELSE "terminated"
    /\ UNCHANGED <<shared, ovars, procs, wresult, qvars, mvars, stopSet>>

\* Pickled sizes an object can have; None always fits the pipe.
Sizes(v) == IF v = None THEN {1} ELSE 1..MaxSize

\* line 173: __q.put(result) hands the object to the queue's feeder thread
Put ==
    /\ wpc = "put"
    /\ qmsg' = wresult
    /\ \E sz \in Sizes(wresult) : qsize' = sz /\ unsent' = sz
    /\ puts' = puts + 1
    /\ wpc' = "exit"
    /\ UNCHANGED <<shared, ovars, procs, wresult, outcome, pipe, received,
                   mvars, stopSet>>

\* The feeder thread writes to the pipe while the pipe has room.
Feeder ==
    /\ unsent > 0
    /\ pipe < PipeCap
    /\ LET k == Min(unsent, PipeCap - pipe)
       IN /\ pipe' = pipe + k
          /\ unsent' = unsent - k
    /\ UNCHANGED <<shared, ovars, procs, wvars, qmsg, qsize, received, puts,
                   mvars, stopSet>>

\* local_func has returned: the process ends once the feeder thread has
\* written everything (the queue joins its feeder thread at process exit).
WorkerExit ==
    /\ wpc = "exit"
    /\ unsent = 0
    /\ wpc' = "terminated"
    /\ UNCHANGED <<shared, ovars, procs, wresult, outcome, qvars, mvars, stopSet>>


\* ------------------------------------------------------ Monitor: plotting
\* A prefill one entry short
PrefillShort == [i \in 1..(HOLD_DATA_SIZE - 1) |-> 0]

\* deque([.0] * HOLD_DATA_SIZE, maxlen=HOLD_DATA_SIZE), lines 73-76
Prefill == [i \in 1..HOLD_DATA_SIZE |-> 0]

\* append on a deque without maxlen
deque_append_unbounded(d, x) == Append(d, x)

\* deque.append on a deque with maxlen: a full deque drops its leftmost item
deque_append(d, x) ==
    IF Len(d) >= HOLD_DATA_SIZE THEN Append(Tail(d), x) ELSE Append(d, x)

\* memory_check, lines 50-54: bytes to megabytes
memory_check(info) ==
    <<info.rss \div UNIT, info.vms \div UNIT, info.peak_pagefile \div UNIT>>

\* The log file object: lines written to it, and lines that have reached the
\* file (durable).  write buffers, flush and close push the buffer out, and
\* close on a closed file does nothing.
f_open == [state |-> "open", written |-> 0, durable |-> 0]
f_write(fl) == [fl EXCEPT !.written = @ + 1]
f_flush(fl) == [fl EXCEPT !.durable = fl.written]
f_close(fl) ==
    IF fl.state = "open"
        THEN [fl EXCEPT !.state = "closed", !.durable = fl.written]
        ELSE fl

\* lines 97-99: the two header lines, flushed
HeaderLines == 2
WriteHeader(fl) == f_flush(f_write(f_write(fl)))

\* The row is written only when no flush is due
WriteRowOrFlush(fl, fc) ==
    IF fc + 1 = FLUSH_EVERY
        THEN <<f_flush(fl), 0>>
        ELSE <<f_write(fl), fc + 1>>

\* flush_count is never reset
WriteRowNoReset(fl, fc) ==
    IF fc + 1 = FLUSH_EVERY
        THEN <<f_flush(f_write(fl)), fc + 1>>
        ELSE <<f_write(fl), fc + 1>>

\* lines 118-122: one row, and a flush on every FLUSH_EVERY-th row.
\* The pair <<file, flush_count>> after the row.
WriteRow(fl, fc) ==
    IF fc + 1 = FLUSH_EVERY
        THEN <<f_flush(f_write(fl)), 0>>
        ELSE <<f_write(fl), fc + 1>>

\* A finally clause that releases the chart only
FinallyChartOnly(fl) ==
    /\ f' = fl
    /\ fig' = "closed"
    /\ mpc' = "exited"

\* lines 156-159: the finally clause, run on the file as the loop left it,
\* and the end of the process
Finally(fl) ==
    /\ f' = IF file_name THEN f_close(fl) ELSE fl
    /\ fig' = "closed"
    /\ mpc' = "exited"

\* lines 73-101: the state of plotting when it enters its loop
PlotInit ==
    /\ mpc = "init"
    /\ times' = Prefill /\ pmems' = Prefill /\ vmems' = Prefill /\ peaks' = Prefill
    /\ fig' = "open"
    /\ f' = IF file_name THEN WriteHeader(f_open) ELSE f
    /\ flush_count' = 0
    /\ elapsed' = 0
    /\ mpc' = "r104"
    /\ tick' = "init"
    /\ UNCHANGED <<shared, ovars, procs, wvars, qvars, annot, pushCount, recent,
                   ghost, stopSet>>

\* lines 104-106: WAITING_START pauses and resets start_time; any other
\* value goes on to the test of line 107
PlotWaitingStart ==
    /\ mpc = "r104"
    /\ IF status = WAITING_START
         THEN /\ elapsed' = 0
              /\ paused' = TRUE
              /\ tick' = "waiting_start"
              /\ mpc' = "r104"
              /\ UNCHANGED firstRead
         ELSE /\ mpc' = "r107"
              /\ firstRead' = status
              /\ UNCHANGED <<elapsed, tick, paused>>
    /\ UNCHANGED <<shared, ovars, procs, wvars, qvars, hist, f, flush_count, fig,
                   annot, pushCount, recent, stopTicks, stopSet>>

\* A dispatch that goes from line 107 to the test of line 148
PlotNotRunningSkipsStop ==
    /\ mpc = "r107"
    /\ status # RUNNING
    /\ mpc' = "r148"
    /\ UNCHANGED <<shared, ovars, procs, wvars, qvars, hist, elapsed, f,
                   flush_count, fig, tick, annot, pushCount, recent, ghost, stopSet>>

\* line 107 finds another value than RUNNING
PlotNotRunning ==
    /\ mpc = "r107"
    /\ status # RUNNING
    /\ mpc' = "r140"
    /\ UNCHANGED <<shared, ovars, procs, wvars, qvars, hist, elapsed, f,
                   flush_count, fig, tick, annot, pushCount, recent, ghost, stopSet>>

\* lines 116-122: the file and flush_count after this tick's row
Row == IF file_name THEN WriteRow(f, flush_count) ELSE <<f, flush_count>>

\* lines 123-126: the sample goes to the tail of the four deques
AppendSample(current_time, mem) ==
    /\ times' = deque_append(times, current_time)
    /\ pmems' = deque_append(pmems, mem[1])
    /\ vmems' = deque_append(vmems, mem[2])
    /\ peaks' = deque_append(peaks, mem[3])
    /\ pushCount' = pushCount + 1
    /\ LET all == Append(recent, [n |-> pushCount, s |-> <<current_time>> \o mem])
       IN recent' = IF Len(all) > HOLD_DATA_SIZE
                      THEN SubSeq(all, Len(all) - HOLD_DATA_SIZE + 1, Len(all))
                      ELSE all

\* A RUNNING tick during which the clock does not move
PlotRunningSampleClockStuck ==
    /\ mpc = "r107"
    /\ status = RUNNING
    /\ ProcessExists(pid)
    /\ file_name => f.state = "open"
    /\ pushCount < MaxPushes
    /\ f' = Row[1]
    /\ flush_count' = Row[2]
    /\ \E info \in MemInfos : AppendSample(elapsed + WAITING_TIME, memory_check(info))
    /\ paused' = TRUE
    /\ tick' = "sample"
    /\ mpc' = "r104"
    /\ firstRead' = 0
    /\ UNCHANGED <<shared, ovars, procs, wvars, qvars, elapsed, fig, annot,
                   stopTicks, stopSet>>

\* lines 107-139: a RUNNING tick whose memory_check succeeds.  The clock
\* moves by the pause of line 139 (the cost of drawing is taken as zero).
PlotRunningSample ==
    /\ mpc = "r107"
    /\ status = RUNNING
    /\ ProcessExists(pid)
    /\ file_name => f.state = "open"
    /\ pushCount < MaxPushes
    /\ f' = Row[1]
    /\ flush_count' = Row[2]
    /\ \E info \in MemInfos : AppendSample(elapsed + WAITING_TIME, memory_check(info))
    /\ elapsed' = elapsed + WAITING_TIME
    /\ paused' = TRUE
    /\ tick' = "sample"
    /\ mpc' = "r104"
    /\ firstRead' = 0
    /\ UNCHANGED <<shared, ovars, procs, wvars, qvars, fig, annot, stopTicks, stopSet>>

\* A not-found tick that falls through to the appends with a zero sample
PlotRunningNoSuchProcessAppends ==
    /\ mpc = "r107"
    /\ status = RUNNING
    /\ pushCount < MaxPushes
    /\ AppendSample(elapsed + WAITING_TIME, <<0, 0, 0>>)
    /\ tick' = "notfound"
    /\ mpc' = "r104"
    /\ paused' = FALSE
    /\ firstRead' = 0
    /\ UNCHANGED <<shared, ovars, procs, wvars, qvars, elapsed, f,
                   flush_count, fig, annot, stopTicks, stopSet>>

\* lines 109-114: memory_check raises NoSuchProcess; continue goes back to
\* line 103 without reaching the pause of line 139
PlotRunningNoSuchProcess ==
    /\ mpc = "r107"
    /\ status = RUNNING
    /\ tick' = "notfound"
    /\ mpc' = "r104"
    /\ paused' = FALSE
    /\ firstRead' = 0
    /\ UNCHANGED <<shared, ovars, procs, wvars, qvars, hist, elapsed, f,
                   flush_count, fig, annot, pushCount, recent, stopTicks, stopSet>>

\* line 110 raises anything else: nothing was written or appended, the
\* finally clause runs
PlotRunningError ==
    /\ mpc = "r107"
    /\ status = RUNNING
    /\ Finally(f)
    /\ tick' = "error"
    /\ paused' = FALSE
    /\ UNCHANGED <<shared, ovars, procs, wvars, qvars, hist, elapsed, flush_count,
                   annot, pushCount, recent, stopTicks, firstRead, stopSet>>

\* lines 128-139: the sample was written and appended, then the chart
\* update raises; the finally clause runs
PlotRunningDrawError ==
    /\ mpc = "r107"
    /\ status = RUNNING
    /\ ProcessExists(pid)
    /\ file_name => f.state = "open"
    /\ pushCount < MaxPushes
    /\ \E info \in MemInfos : AppendSample(elapsed + WAITING_TIME, memory_check(info))
    /\ flush_count' = Row[2]
    /\ Finally(Row[1])
    /\ tick' = "error"
    /\ paused' = FALSE
    /\ UNCHANGED <<shared, ovars, procs, wvars, qvars, elapsed, annot, stopTicks,
                   firstRead, stopSet>>

\* A STOP_PLOTTING tick that writes a last row before it closes the log
PlotStopPlottingWritesRow ==
    /\ mpc = "r140"
    /\ IF status = STOP_PLOTTING
         THEN /\ annot' = <<times[Len(times)], peaks[Len(peaks)]>>
              /\ f' = IF file_name THEN f_close(f_write(f)) ELSE f
              /\ tick' = "stop"
              /\ paused' = FALSE
              /\ stopTicks' = stopTicks + 1
              /\ mpc' = "w147"
         ELSE /\ mpc' = "r148"
              /\ UNCHANGED <<annot, f, tick, paused, stopTicks>>
    /\ UNCHANGED <<shared, ovars, procs, wvars, qvars, hist, elapsed, flush_count,
                   fig, pushCount, recent, firstRead, stopSet>>

\* lines 140-146: STOP_PLOTTING draws the peak annotation and closes the
\* log, and does not pause; any other value goes on to the test of line 148
PlotStopPlotting ==
    /\ mpc = "r140"
    /\ IF status = STOP_PLOTTING
         THEN /\ annot' = <<times[Len(times)], peaks[Len(peaks)]>>
              /\ f' = IF file_name THEN f_close(f) ELSE f
              /\ tick' = "stop"
              /\ paused' = FALSE
              /\ stopTicks' = stopTicks + 1
              /\ mpc' = "w147"
         ELSE /\ mpc' = "r148"
              /\ UNCHANGED <<annot, f, tick, paused, stopTicks>>
    /\ UNCHANGED <<shared, ovars, procs, wvars, qvars, hist, elapsed, flush_count,
                   fig, pushCount, recent, firstRead, stopSet>>

\* line 147: status.value = Status.WAITING_STOP
PlotSetWaitingStop ==
    /\ mpc = "w147"
    /\ status' = WAITING_STOP
    /\ mpc' = "r104"
    /\ firstRead' = 0
    /\ UNCHANGED <<pid, ovars, procs, wvars, qvars, hist, elapsed, f, flush_count,
                   fig, tick, annot, pushCount, recent, paused, stopTicks, stopSet>>

\* lines 148-149: WAITING_STOP pauses; any other value goes on to line 150
PlotWaitingStop ==
    /\ mpc = "r148"
    /\ IF status = WAITING_STOP
         THEN /\ mpc' = "r104"
              /\ tick' = "waiting_stop"
              /\ paused' = TRUE
              /\ firstRead' = 0
         ELSE /\ mpc' = "r150"
              /\ UNCHANGED <<tick, paused, firstRead>>
    /\ UNCHANGED <<shared, ovars, procs, wvars, qvars, hist, elapsed, f,
                   flush_count, fig, annot, pushCount, recent, stopTicks, stopSet>>

\* A last branch that idles on any value but CLOSE_FIGURE
PlotCloseFigureLenient ==
    /\ mpc = "r150"
    /\ IF status = CLOSE_FIGURE
         THEN /\ tick' = "close"
              /\ Finally(f)
              /\ paused' = FALSE
              /\ UNCHANGED firstRead
         ELSE /\ tick' = "waiting_stop"
              /\ mpc' = "r104"
              /\ paused' = TRUE
              /\ firstRead' = 0
              /\ UNCHANGED <<f, fig>>
    /\ UNCHANGED <<shared, ovars, procs, wvars, qvars, hist, elapsed, flush_count,
                   annot, pushCount, recent, stopTicks, stopSet>>

\* lines 150-159: CLOSE_FIGURE closes the chart and breaks; any other value
\* raises ValueError; both leave through the finally clause
PlotCloseFigure ==
    /\ mpc = "r150"
    /\ tick' = IF status = CLOSE_FIGURE THEN "close" ELSE "invalid"
    /\ Finally(f)
    /\ paused' = FALSE
    /\ UNCHANGED <<shared, ovars, procs, wvars, qvars, hist, elapsed, flush_count,
                   annot, pushCount, recent, stopTicks, firstRead, stopSet>>

\* ----------------------------------------------------------------- Next
Orchestrator ==
    \/ StartPlot \/ StartMain \/ Discover \/ SetRunning \/ JoinMain \/ SetStop
    \/ Get \/ CloseFigureJoin

Worker == WorkReturns \/ WorkRaises \/ Put \/ WorkerExit

\* The steps plotting takes when nothing raises out of its loop
MonitorLoop ==
    \/ PlotInit \/ PlotWaitingStart \/ PlotNotRunning \/ PlotRunningSample
    \/ PlotRunningNoSuchProcess \/ PlotStopPlotting \/ PlotSetWaitingStop
    \/ PlotWaitingStop \/ PlotCloseFigure

\* The steps in which the sampler or the chart raises
MonitorError == PlotRunningError \/ PlotRunningDrawError

Monitor == MonitorLoop \/ MonitorError

Next == Orchestrator \/ CloseFigureSet \/ Worker \/ Feeder \/ Monitor

Spec == Init /\ [][Next]_vars

\* Each process is scheduled by the OS and the feeder is a thread of the
\* Worker: none of them waits forever while it can step.  The caller's
\* decision to invoke close_figure is left free, and so is every error the
\* sampler or the chart may raise: an error can happen, none has to.
FairSpec ==
    /\ Init /\ [][Next]_vars
    /\ WF_vars(Orchestrator)
    /\ WF_vars(Worker)
    /\ WF_vars(Feeder)
    /\ WF_vars(MonitorLoop)

\* A writer outside the program puts a value outside the enumeration into
\* the status cell while the Monitor runs.
Inject ==
    /\ mpc \notin {"unstarted", "exited"}
    /\ status \in Status
    /\ \E v \in {0, CLOSE_FIGURE + 1} : status' = v
    /\ UNCHANGED <<pid, ovars, procs, wvars, qvars, mvars, stopSet>>

NextInject == Next \/ Inject

SpecInject == Init /\ [][NextInject]_vars


\* ================================================================ claims
\* wrapper has returned to its caller (line 227)
RunReturned == opc \in {"returned", "close_join", "closed"}

\* __func has ended, by returning or by raising
WorkFinished == outcome # "none"

\* C1: in every execution in which the unit of work finishes, by returning a
\* value of any size or by raising, the run call eventually returns to the
\* caller: the join on the Worker and the blocking get never block forever.
C1_RunEventuallyReturns == WorkFinished ~> RunReturned

\* C2: once close_figure has been invoked after run returned (it has set
\* CLOSE_FIGURE), the Monitor process eventually exits and close_figure
\* returns, in every interleaving with the Monitor's ticks.
C2_CloseEventuallyReturns == (opc = "close_join") ~> (opc = "closed" /\ mpc = "exited")

\* A step of the Orchestrator, a step of the Monitor
OrchestratorStep == opc' # opc
MonitorStep == mpc' # mpc

\* C3: every change of the status cell follows WAITING_START->RUNNING,
\* RUNNING->STOP_PLOTTING, STOP_PLOTTING->WAITING_STOP or
\* WAITING_STOP->CLOSE_FIGURE; the first, second and fourth are made by the
\* Orchestrator only, and the Monitor's only write changes STOP_PLOTTING to
\* WAITING_STOP.
C3_TableEdgesOnly ==
    [][status' # status =>
        \/ status = WAITING_START /\ status' = RUNNING /\ OrchestratorStep
        \/ status = RUNNING /\ status' = STOP_PLOTTING /\ OrchestratorStep
        \/ status = STOP_PLOTTING /\ status' = WAITING_STOP /\ MonitorStep
        \/ status = WAITING_STOP /\ status' = CLOSE_FIGURE /\ OrchestratorStep]_vars

\* C5: however the unit of work ends in the Worker, the Worker has put exactly
\* one envelope on the result channel by the time its process has exited.
C5_ExactlyOneEnvelope == wpc = "terminated" => puts = 1


\* C4: when run has returned, its result is the value the unit of work
\* returned, or None when the work raised, and STOP_PLOTTING has been set.
C4_ResultHandedBack ==
    RunReturned =>
        /\ stopSet
        /\ outcome = "return" => result = wresult /\ result \in Returns
        /\ outcome # "return" => result = None

C4_Witness ==
    /\ opc = "returned"
    /\ outcome = "return"
    /\ result = "v2"
    /\ status = STOP_PLOTTING

\* The Monitor is in its loop or has left it
MonitorStarted == mpc \notin {"unstarted", "init"}

ZeroPad(n) == [i \in 1..n |-> 0]

\* What series k (1 time, 2 physical, 3 virtual, 4 peak) must hold: the
\* zero prefill that is left, then the last samples pushed, oldest first.
Series(k) ==
    ZeroPad(HOLD_DATA_SIZE - Len(recent)) \o [i \in 1..Len(recent) |-> recent[i].s[k]]

\* C6: the history never holds more than HOLD_DATA_SIZE entries, pushes go
\* to the tail in order, from HOLD_DATA_SIZE pushes on the oldest entry is
\* push number pushCount - HOLD_DATA_SIZE (counting from zero), and the four
\* series hold the same samples at the same positions.
C6_HistoryWindow ==
    /\ Len(times) <= HOLD_DATA_SIZE /\ Len(pmems) <= HOLD_DATA_SIZE
    /\ Len(vmems) <= HOLD_DATA_SIZE /\ Len(peaks) <= HOLD_DATA_SIZE
    /\ MonitorStarted =>
        /\ times = Series(1) /\ pmems = Series(2)
        /\ vmems = Series(3) /\ peaks = Series(4)
        /\ \A i \in 1..Len(recent) : recent[i].n = pushCount - Len(recent) + (i - 1)
        /\ pushCount >= HOLD_DATA_SIZE =>
             /\ Len(recent) = HOLD_DATA_SIZE
             /\ recent[1].n = pushCount - HOLD_DATA_SIZE
             /\ times[1] = recent[1].s[1]

C6_Witness ==
    /\ pushCount > HOLD_DATA_SIZE + 1
    /\ Len(times) = HOLD_DATA_SIZE
    /\ recent[1].n = pushCount - HOLD_DATA_SIZE
    /\ times[1] = recent[1].s[1]
    /\ pmems[1] # pmems[HOLD_DATA_SIZE]

\* C7: a RUNNING tick whose sampler query ends in NoSuchProcess appends no
\* sample, writes no row, leaves flush_count and the status cell alone, and
\* leaves the Monitor at the top of its loop.
C7_NotFoundChangesNothing ==
    [][(mpc = "r107" /\ status = RUNNING /\ mpc' # mpc /\ tick' = "notfound") =>
        /\ UNCHANGED <<times, pmems, vmems, peaks, pushCount>>
        /\ UNCHANGED <<f, flush_count>>
        /\ UNCHANGED status
        /\ mpc' = "r104"]_vars

C7_Witness ==
    /\ tick = "notfound"
    /\ mpc = "r104"
    /\ file_name
    /\ pushCount >= 1
    /\ f.written = HeaderLines + pushCount

\* C8: with a log path, the data rows written to the log are as many as the
\* samples accepted into the history, at every tick boundary and at exit.
C8_RowsEqualSamples ==
    (file_name /\ MonitorStarted) => f.written - HeaderLines = pushCount

C8_Witness ==
    /\ file_name
    /\ mpc = "exited"
    /\ tick = "close"
    /\ pushCount > 10
    /\ f.written - HeaderLines = pushCount

\* C9: the log is flushed on every 10th row, so fewer than 10 rows are ever
\* unflushed, and a close after N rows with N mod 10 # 0 flushes the rest:
\* every row written is durable once the file is closed.
C9_FlushEveryTen ==
    file_name =>
        /\ f.state = "open" =>
             /\ f.written - f.durable < 10
             /\ pushCount % 10 = 0 => f.durable = f.written
        /\ f.state = "closed" => f.durable = f.written

C9_Witness ==
    /\ file_name
    /\ f.state = "closed"
    /\ pushCount > 10
    /\ pushCount % 10 # 0
    /\ f.durable = HeaderLines + pushCount

\* C10: on every path out of the Monitor's loop (CLOSE_FIGURE after the
\* STOP_PLOTTING tick or without it, an invalid status value, an error raised
\* in the loop), the log that was opened is flushed and closed and the chart
\* is released when the process has exited; the second close of a log the
\* STOP_PLOTTING tick already closed changes nothing.
C10_ReleasedAtExit ==
    mpc = "exited" =>
        /\ fig = "closed"
        /\ file_name =>
             /\ f.state = "closed"
             /\ f.durable = f.written
             /\ f.written = HeaderLines + pushCount

C10_Witness ==
    /\ mpc = "exited"
    /\ tick = "invalid"
    /\ file_name
    /\ pushCount % 10 # 0
    /\ f.state = "closed"
    /\ f.durable = HeaderLines + pushCount
    /\ fig = "closed"


\* The places where the Monitor's dispatch reads the status cell
DispatchPoints == <<"r104", "r107", "r140", "r148", "r150">>

NextPoint(p) == CHOOSE i \in 1..4 : DispatchPoints[i] = p

\* C11: a dispatch that finds a value outside the enumeration in the status
\* cell matches no branch: each test passes the Monitor on to the next
\* without sampling, appending, writing a row or pausing, and the last one
\* raises, which ends the Monitor in that tick.
C11_InvalidStatusAborts ==
    [][(MonitorStep /\ status \notin Status
            /\ mpc \in {DispatchPoints[i] : i \in 1..5}) =>
        /\ UNCHANGED <<times, pmems, vmems, peaks, pushCount, flush_count, status>>
        /\ f'.written = f.written
        /\ paused' => paused
        /\ IF mpc = "r150"
             THEN mpc' = "exited" /\ tick' = "invalid"
             ELSE mpc' = DispatchPoints[NextPoint(mpc) + 1] /\ tick' = tick]_vars

C11_Witness ==
    /\ mpc = "exited"
    /\ tick = "invalid"
    /\ status \notin Status
    /\ stopTicks = 0
    /\ pushCount >= 1
    /\ times[HOLD_DATA_SIZE] > 0

\* C12: as long as no sample has been accepted (after initialization, after
\* WAITING_START ticks, after not-found RUNNING ticks), each series of the
\* history holds exactly HOLD_DATA_SIZE entries, all zero.
C12_PrefillBeforeFirstSample ==
    (MonitorStarted /\ pushCount = 0) =>
        /\ Len(times) = HOLD_DATA_SIZE
        /\ times = ZeroPad(HOLD_DATA_SIZE) /\ pmems = ZeroPad(HOLD_DATA_SIZE)
        /\ vmems = ZeroPad(HOLD_DATA_SIZE) /\ peaks = ZeroPad(HOLD_DATA_SIZE)

C12_Witness ==
    /\ tick = "notfound"
    /\ pushCount = 0
    /\ Len(times) = HOLD_DATA_SIZE
    /\ \A i \in 1..HOLD_DATA_SIZE : times[i] = 0 /\ peaks[i] = 0

\* C13: the identifier the Orchestrator writes into pid is the Worker's in
\* every interleaving, never the Monitor's.
C13_HandleIsWorker == pid # 0 => (pid = wpid /\ pid # mpid)

\* C14: after a RUNNING tick that ended in NoSuchProcess, the Monitor has
\* paused by the time it makes its next sampler query.
C14_SleepAfterNotFound ==
    (mpc = "r107" /\ status = RUNNING /\ tick = "notfound") => paused

\* C15: in a session in which STOP_PLOTTING was set, a Monitor that has torn
\* down the chart on CLOSE_FIGURE and exited has run its STOP_PLOTTING tick
\* exactly once, whenever the caller asked for the close.
C15_StopTickExactlyOnce ==
    (mpc = "exited" /\ tick = "close" /\ stopSet) => stopTicks = 1

\* C16 as stated: the elapsed times held in the history are strictly
\* increasing from head to tail in every state of the Monitor.
C16_StrictlyIncreasing ==
    MonitorStarted => \A i \in 1..(Len(times) - 1) : times[i] < times[i + 1]

\* Entries of the zero prefill still in the history
PrefillLeft == HOLD_DATA_SIZE - Len(recent)

\* C16 as amended: the entries are in the order the Monitor observed them,
\* the zeros of the prefill come first, and from the last prefill zero on
\* the elapsed times are strictly increasing.
C16_IncreasingAfterPrefill ==
    MonitorStarted =>
        /\ times = Series(1)
        /\ \A i \in 1..(Len(times) - 1) :
             \/ times[i] < times[i + 1]
             \/ i + 1 <= PrefillLeft /\ times[i] = 0 /\ times[i + 1] = 0

C16_Witness ==
    /\ pushCount > HOLD_DATA_SIZE
    /\ PrefillLeft = 0
    /\ \A i \in 1..(HOLD_DATA_SIZE - 1) : times[i] < times[i + 1]
    /\ times[1] > 0

\* C17: pid is written once, from 0, by the discovery and while status is
\* still WAITING_START; so whenever status is past WAITING_START, and at
\* every sampler query, pid holds the discovered identifier, not 0.
C17_HandleWrittenOnceBeforeRunning ==
    /\ [](status # WAITING_START => pid # 0)
    /\ [][pid' # pid => (pid = 0 /\ opc = "discover" /\ status = WAITING_START)]_vars

C17_Witness ==
    /\ tick = "sample"
    /\ status = RUNNING
    /\ pid # 0
    /\ pushCount >= 1

\* C18: after initialization the history and the log change only in a
\* RUNNING tick whose sampler query succeeded, by one sample and one row,
\* and never once the STOP_PLOTTING tick has run.
C18_OnlyAcceptedSamplesChange ==
    [][(mpc # "init" /\ (hist' # hist \/ pushCount' # pushCount
                          \/ f'.written # f.written)) =>
        /\ mpc = "r107" /\ status = RUNNING /\ ProcessExists(pid)
        /\ stopTicks = 0
        /\ pushCount' = pushCount + 1
        /\ times'[HOLD_DATA_SIZE] = elapsed + WAITING_TIME
        /\ f'.written = f.written + (IF file_name THEN 1 ELSE 0)
        /\ file_name => f.state = "open"]_vars

C18_Witness ==
    /\ stopTicks = 1
    /\ tick = "waiting_stop"
    /\ file_name
    /\ f.state = "closed"
    /\ pushCount >= 1
    /\ f.written = HeaderLines + pushCount

\* C19: with no writer of the status cell but the Orchestrator and the
\* Monitor, the last test of the dispatch always finds CLOSE_FIGURE, so the
\* Monitor never raises the invalid-status error, even when the Orchestrator
\* changes the cell between two tests of one dispatch.
C19_NoInvalidAbort ==
    /\ tick # "invalid"
    /\ mpc = "r150" => status = CLOSE_FIGURE

C19_Witness ==
    /\ mpc = "r150"
    /\ firstRead = RUNNING
    /\ status = CLOSE_FIGURE

====
